---- MODULE Spec2Model ----
(***************************************************************************)
(* Model of the model cache and inference dispatch of the inference        *)
(* server: ModelManager (app/services/model_manager.py), the request       *)
(* handlers that drive it (app/api/v1/chat.py, app/api/v1/models.py) and   *)
(* the metrics hook it calls (app/utils/metrics.py).                       *)
(*                                                                         *)
(* All coroutines run on one asyncio event loop thread: a task runs        *)
(* without interruption from one await to the next.  `running` names the   *)
(* task that is in the middle of such a synchronous stretch.  Backend      *)
(* calls handed to run_in_executor run on worker threads (`executor`).     *)
(*                                                                         *)
(* Spec: concurrent requests.  SpecSerial: one client, more keys.          *)
(* SpecAnswers: one client, with the HTTP response to each request kept    *)
(* in last_response.  SpecClean: _clean_response applied to generated      *)
(* texts, which are sequences of characters.  SpecInference: two clients   *)
(* sending chat completions, with the concurrent-inference counter.        *)
(* SpecMlx: the same on the mlx backend, with the fairness of the event    *)
(* loop.  SpecAuth: requests passing AuthenticationMiddleware              *)
(* (app/utils/middleware.py) and the dependencies of their routes, next to *)
(* the key management of app/core/database.py.  SpecOrder: concurrent      *)
(* requests with a cache that has room for every key.  SpecGauge: one      *)
(* client, with the model_cache_size gauge followed.                       *)
(***************************************************************************)
EXTENDS Integers, Sequences, FiniteSets, TLC

\* ---- bounds of the model ----
NumTasks == 2
NumKeys == 2
MaxCapacity == 2
MaxTime == 1
MaxTimeouts == 1
NumSerialKeys == 3
MaxSerialCapacity == 3
MaxPieces == 4
NumApiKeys == 1
MaxUsage == 1
RoomyCapacity == 3

Tasks == 1..NumTasks
Keys == 1..NumKeys
SerialKeys == 1..NumSerialKeys
None == 0
Backends == {"mlx", "vllm", "cpu"}
Outcomes == {"ok", "not_found", "error"}
\* how a backend generate call ends; "empty": it returns a text that
\* _clean_response reduces to the empty string
GenerateOutcomes == Outcomes \cup {"empty"}

VARIABLES
    backend,              \* ModelManager.backend
    max_model_cache_size, \* settings.max_model_cache_size
    models_cache,         \* ModelManager._models_cache, in OrderedDict order
    last_access,          \* ModelManager._last_access, in dict insertion order
    load_times,           \* keys of ModelManager._load_times (the durations are only reported)
    vllm_engines,         \* ModelManager._vllm_engines, in dict insertion order
    cache_lock,           \* holder of ModelManager._cache_lock (threading.Lock)
    mlx_lock,             \* ModelManager._mlx_lock: "None" until created
    mlx_holder,           \* task owning the asyncio.Lock
    mlx_waiters,          \* tasks queued on the asyncio.Lock, FIFO
    running,              \* task inside a synchronous stretch on the event loop
    task,                 \* per request task: position and locals
    executor,             \* backend calls running on worker threads
    ntimeouts,            \* history: deadlines expired so far
    now,                  \* time.time()
    mem_low,              \* psutil available_gb < 2.0
    last_hit,             \* history: key of the latest access when it was a cache hit
    last_evict,           \* history: the latest eviction
    last_response,        \* history: the latest HTTP response, where responses are observed
    response,             \* _clean_response: the generated text it is given
    cleaned_response,     \* generate_response: what _clean_response returned
    active_inferences,    \* MetricsCollector._active_inferences, where it is followed
    api_keys,             \* rows of the api_keys table
    request,              \* the latest request seen by AuthenticationMiddleware
    api_key_usage,        \* api_key_id values of the rows of the api_key_usage table
    in_progress,          \* requests between two steps of their authentication
    model_cache_size      \* the model_cache_size gauge, where it is followed

vars == <<backend, max_model_cache_size, models_cache, last_access, load_times,
          vllm_engines, cache_lock, mlx_lock, mlx_holder, mlx_waiters, running,
          task, executor, ntimeouts, now, mem_low, last_hit, last_evict,
          last_response, response, cleaned_response, active_inferences, api_keys,
          request, api_key_usage, in_progress, model_cache_size>>

\* ---- dictionaries kept as sequences of items, in Python's iteration order ----
DictKeys(d) == {d[i].k : i \in DOMAIN d}

DictHas(d, key) == key \in DictKeys(d)

DictGet(d, key) == (CHOOSE i \in DOMAIN d : d[i].k = key)

DictDel(d, key) == SelectSeq(d, LAMBDA item : item.k # key)

\* d[key] = v: an existing key keeps its position, a new key goes last
DictSet(d, key, v) ==
    IF DictHas(d, key)
    THEN [i \in DOMAIN d |-> IF d[i].k = key THEN [k |-> key, v |-> v] ELSE d[i]]
    ELSE Append(d, [k |-> key, v |-> v])

\* OrderedDict.move_to_end(key)
MoveToEnd(d, key) == Append(DictDel(d, key), d[DictGet(d, key)])

CacheKeys == DictKeys(models_cache)

\* what max() in place of min() would pick: the first item, in dict order,
\* whose time is maximal
LruIndexNewest(la) ==
    CHOOSE i \in DOMAIN la :
        /\ \A j \in DOMAIN la : la[j].v <= la[i].v
        /\ \A j \in DOMAIN la : j < i => la[j].v < la[i].v

\* min(self._last_access.items(), key=lambda x: x[1]): the first item, in
\* dict order, whose time is minimal
LruIndex(la) ==
    CHOOSE i \in DOMAIN la :
        /\ \A j \in DOMAIN la : la[j].v >= la[i].v
        /\ \A j \in DOMAIN la : j < i => la[j].v > la[i].v

\* lru_model with a tie resolved the other way: the last item, in dict
\* order, whose time is minimal
LruKeyLastOfTies(la) ==
    la[CHOOSE i \in DOMAIN la :
           /\ \A j \in DOMAIN la : la[j].v >= la[i].v
           /\ \A j \in DOMAIN la : j > i => la[j].v > la[i].v].k

\* lru_model
LruKey(la) == la[LruIndex(la)].k

\* _should_evict_model with > in place of >=: a full cache is not yet a
\* reason to evict
ShouldEvictOffByOne ==
    \/ Len(models_cache) > max_model_cache_size
    \/ mem_low

\* _should_evict_model: the cache is full, or less than 2 GB is available
ShouldEvict ==
    \/ Len(models_cache) >= max_model_cache_size
    \/ mem_low

\* which of the two conditions of _should_evict_model hold
EvictReasons ==
    (IF Len(models_cache) >= max_model_cache_size THEN {"size"} ELSE {})
        \cup (IF mem_low THEN {"memory"} ELSE {})

\* record_cache_operation(operation), called while `holder` owns _cache_lock:
\* 'load' and 'eviction' call get_cache_info, which takes the non-reentrant
\* _cache_lock; with the lock already held the calling thread blocks for good
RecordCacheOperation(operation, holder) ==
    IF operation \in {"load", "eviction"} /\ holder # None
    THEN "blocked"
    ELSE "done"

\* MetricsCollector._active_inferences where no specification follows it
NotCounted == -1

\* record_inference_start
RecordInferenceStart(n) == IF n = NotCounted THEN NotCounted ELSE n + 1

\* record_inference_end: max(0, n - 1)
RecordInferenceEnd(n) ==
    IF n = NotCounted THEN NotCounted
    ELSE IF n - 1 > 0 THEN n - 1 ELSE 0

IdleTask == [pc |-> "idle", op |-> "none", key |-> None,
             model_data |-> None, evicted |-> <<>>, why |-> {}, late |-> FALSE]

\* the counter after the handler of task t has answered: chat_completion
\* calls record_inference_end once on its way out, preload_model never
ChatAnswered(t) ==
    IF task[t].op = "chat" THEN RecordInferenceEnd(active_inferences)
    ELSE active_inferences

\* chat_completion after a generation whose response object cannot be
\* built: record_inference_end of line 164, then the one of `except Exception`
ChatAnsweredInvalid(t) == RecordInferenceEnd(RecordInferenceEnd(active_inferences))

\* ---- HTTP responses of the handlers ----
\* no request has been answered yet
NoResponse == [op |-> "none", key |-> None, status |-> 0, cause |-> "none", prev |-> 0,
               late |-> FALSE]

\* the value last_response keeps in the behaviours that do not follow responses
Unobserved == [NoResponse EXCEPT !.op = "unobserved"]

\* what ended the request: the exception of a failed backend load, by whether
\* its message says the model was not found
LoadCause(outcome) == IF outcome = "not_found" THEN "load_not_found" ELSE "load_error"

\* chat_completion: 200; except asyncio.TimeoutError: 504; except Exception: 500
ChatStatus(cause) ==
    IF cause = "none" THEN 200
    ELSE IF cause = "timeout" THEN 504
    ELSE 500

\* preload_model: 200; 413 when full and short of memory; except
\* asyncio.TimeoutError: 504; except Exception: 400 when the message has
\* "not found" or "No such file or directory", else 500
PreloadStatus(cause) ==
    IF cause = "none" THEN 200
    ELSE IF cause = "cache_full" THEN 413
    ELSE IF cause = "timeout" THEN 504
    ELSE IF cause = "load_not_found" THEN 400
    ELSE 500

HandlerStatus(op, cause) == IF op = "chat" THEN ChatStatus(cause) ELSE PreloadStatus(cause)

\* last_response after the handler of `op` answered with `status`; prev is the
\* status of the response before it when that one answered the same
\* operation on the same key
Respond(op, key, status, cause) ==
    IF last_response = Unobserved
    THEN last_response
    ELSE [op |-> op, key |-> key, status |-> status, cause |-> cause,
          prev |-> IF last_response.op = op /\ last_response.key = key
                   THEN last_response.status ELSE 0,
          late |-> FALSE]

\* whether a synchronous backend load (vllm: AsyncLLMEngine.from_engine_args
\* called on the event loop thread) outlasts the deadline that wait_for set
\* for the request; followed where responses are observed
LoadOutlasts == IF last_response = Unobserved THEN {FALSE} ELSE BOOLEAN

\* the response of the chat or preload handler running as task t; late: the
\* deadline of wait_for had expired when the handler answered
AnswerLate(t, cause, late) ==
    LET answer == Respond(task[t].op, task[t].key, HandlerStatus(task[t].op, cause), cause)
    IN IF answer = Unobserved THEN answer ELSE [answer EXCEPT !.late = late]

\* the response of the chat or preload handler running as task t
Answer(t, cause) == AnswerLate(t, cause, task[t].late \/ cause = "timeout")

\* the state after ModelManager.__init__, for a capacity among `capacities`
InitWith(capacities) ==
    /\ backend \in Backends
    /\ max_model_cache_size \in capacities
    /\ models_cache = <<>>
    /\ last_access = <<>>
    /\ load_times = {}
    /\ vllm_engines = <<>>
    /\ cache_lock = None
    /\ mlx_lock = "None"
    /\ mlx_holder = None
    /\ mlx_waiters = <<>>
    /\ running = None
    /\ task = [t \in Tasks |-> IdleTask]
    /\ executor = {}
    /\ ntimeouts = 0
    /\ now = 0
    /\ mem_low \in BOOLEAN
    /\ last_hit = None
    /\ last_evict = [k |-> None, hit |-> None, others |-> FALSE, colder |-> FALSE]

\* cleaned_response before _clean_response has returned: no text, which is a
\* sequence of single characters, equals it
NotCleaned == <<"not cleaned">>

\* no text has been generated
NoText ==
    /\ response = <<>>
    /\ cleaned_response = NotCleaned

\* ---- authentication of requests (AuthenticationMiddleware, route dependencies) ----
\* the api keys with a row in the api_keys table
ApiKeys == 1..NumApiKeys

\* a key value that has no row
UnknownKey == NumApiKeys + 1

\* a header that the request does not carry
NoHeader == [scheme |-> "none", credentials |-> None]

\* the values of the Authorization header
Authorizations ==
    {NoHeader} \cup [scheme : {"Bearer", "Basic"}, credentials : ApiKeys \cup {UnknownKey}]

\* the values of the X-API-Key header; None: not sent
XApiKeys == {None} \cup ApiKeys \cup {UnknownKey}

\* the routes registered by include_router, paths as sequences of segments
Routes ==
    {[method |-> "POST", path |-> <<"v1", "chat", "completions">>, handler |-> "chat_completion"],
     [method |-> "POST", path |-> <<"v1", "chat", "completions", "stream">>,
      handler |-> "chat_completion_stream"],
     [method |-> "POST", path |-> <<"v1", "models", "preload">>, handler |-> "preload_model"],
     [method |-> "GET", path |-> <<"v1", "models", "cache">>, handler |-> "get_model_cache"],
     [method |-> "DELETE", path |-> <<"v1", "models", "cache">>, handler |-> "clear_model_cache"],
     [method |-> "DELETE", path |-> <<"v1", "models", "cache", "model_name">>,
      handler |-> "remove_model_from_cache"],
     [method |-> "GET", path |-> <<"auth", "me">>, handler |-> "get_current_key_info"],
     [method |-> "GET", path |-> <<"auth", "keys">>, handler |-> "list_api_keys"],
     [method |-> "GET", path |-> <<"health">>, handler |-> "health_check"]}

\* request.url.path.startswith(prefix); on the registered routes a prefix
\* test on characters and one on segments agree
StartsWith(path, prefix) ==
    /\ Len(path) >= Len(prefix)
    /\ SubSeq(path, 1, Len(prefix)) = prefix

\* the paths AuthenticationMiddleware.dispatch lets through without a look
OpenPaths ==
    {<<"health">>, <<"ready">>, <<"metrics">>, <<"metrics", "prometheus">>,
     <<"docs">>, <<"redoc">>, <<"openapi.json">>, <<>>}

\* protected_paths of custom_openapi, which only marks operations in the
\* OpenAPI document
ProtectedPathsOfOpenApi ==
    {<<"v1", "chat", "completions">>, <<"v1", "models">>, <<"auth", "me">>}

\* self.protected_paths: add_middleware(AuthenticationMiddleware) passes no
\* list, so the default of __init__ applies
protected_paths == {<<"v1", "chat", "completions">>}

\* the key dispatch reads from the headers: the Bearer token, else X-API-Key
PresentedKey(authorization, x_api_key) ==
    IF authorization.scheme = "Bearer" THEN authorization.credentials ELSE x_api_key

\* db_manager.verify_api_key(api_key) finds an active, unexpired row
VerifyApiKey(api_key) ==
    /\ api_key \in DOMAIN api_keys
    /\ api_keys[api_key].is_active
    /\ ~api_keys[api_key].expired

\* verify_api_key's UPDATE of the row it returns
AfterVerify(api_key) ==
    IF VerifyApiKey(api_key)
    THEN [api_keys EXCEPT ![api_key].usage_count = @ + 1]
    ELSE api_keys

\* what AuthenticationMiddleware.dispatch does with the request
MiddlewareVerdict(path, authorization, x_api_key) ==
    IF path \in OpenPaths THEN "call_next"
    ELSE IF StartsWith(path, <<"static">>) THEN "call_next"
    ELSE IF StartsWith(path, <<"auth">>) THEN "call_next"
    ELSE IF ~\E p \in protected_paths : StartsWith(path, p) THEN "call_next"
    ELSE IF PresentedKey(authorization, x_api_key) = None THEN "missing_api_key"
    ELSE IF ~VerifyApiKey(PresentedKey(authorization, x_api_key)) THEN "invalid_api_key"
    ELSE "verified"

\* verify_api_key's UPDATE ... WHERE id = ?: it changes the row of that id if
\* there still is one, active or not
UpdateLastUsed(api_key) ==
    IF api_key \in DOMAIN api_keys
    THEN [api_keys EXCEPT ![api_key].usage_count = @ + 1]
    ELSE api_keys

\* PRAGMA foreign_keys of the connections: _get_connection never sets it, so
\* it has SQLite's default, off, and REFERENCES api_keys (id) is not enforced
foreign_keys == FALSE

\* the routes whose handler depends on get_current_api_key
NeedsCurrentApiKey(handler) == handler = "get_current_key_info"

\* no request has passed the middleware yet
NoRequest == [method |-> "none", path |-> <<>>, handler |-> "none",
              authorization |-> NoHeader, x_api_key |-> None,
              verified |-> FALSE, handler_ran |-> FALSE, status |-> 0]

\* the api_keys table where no specification follows it
NoApiKeys == <<>>

\* the model_cache_size gauge where no specification follows it
NotGauged == -1

\* model_cache_size.set(n)
SetGauge(n) == IF model_cache_size = NotGauged THEN NotGauged ELSE n

\* no specification follows the counter, the gauge or the authentication
NoTraffic ==
    /\ active_inferences = NotCounted
    /\ api_keys = NoApiKeys
    /\ request = NoRequest
    /\ api_key_usage = {}
    /\ in_progress = {}
    /\ model_cache_size = NotGauged

Init ==
    /\ InitWith(1..MaxCapacity)
    /\ last_response = Unobserved
    /\ NoText
    /\ NoTraffic

\* ---- asyncio.Lock (the MLX lock): FIFO hand-over on release ----
\* a release that does nothing: the lock stays with the caller that ended
ReleasedHolderKept == mlx_holder

ReleasedHolder == IF mlx_waiters = <<>> THEN None ELSE Head(mlx_waiters)

ReleasedWaiters == IF mlx_waiters = <<>> THEN <<>> ELSE Tail(mlx_waiters)

WithoutWaiter(t) == SelectSeq(mlx_waiters, LAMBDA w : w # t)

\* _get_mlx_lock without the `self.backend == "mlx"` test: the lock object is
\* created on every backend
GetMlxLockOnEveryBackend == "Lock"

\* _get_mlx_lock: the lock object is created on first use, on mlx only
GetMlxLock == IF backend = "mlx" THEN "Lock" ELSE mlx_lock

\* the objects loaded for `key` that something still refers to
LiveHandles(key) ==
    {models_cache[i].v : i \in {x \in DOMAIN models_cache : models_cache[x].k = key}}
        \cup {vllm_engines[i].v : i \in {x \in DOMAIN vllm_engines : vllm_engines[x].k = key}}
        \cup {task[t].model_data : t \in {x \in Tasks : task[x].key = key}}
        \cup {j.id : j \in {x \in executor : x.key = key}}

\* the object the next load of `key` returns: a new one, named by the least
\* number no live object loaded for `key` carries
NewHandle(key) ==
    CHOOSE n \in 1..(Cardinality(LiveHandles(key)) + 1) :
        /\ n \notin LiveHandles(key)
        /\ \A m \in 1..(n - 1) : m \in LiveHandles(key)

\* a backend call on a worker thread; `id` is the handle a load will return
Job(t, kind) ==
    [kind |-> kind, key |-> task[t].key, task |-> t,
     id |-> IF kind = "load" THEN NewHandle(task[t].key) ELSE 0, orphan |-> 0]

JobOf(t) == CHOOSE j \in executor : j.task = t


\* ---- request handlers ----

\* POST /v1/chat/completions: wait_for(generate_response(...))
ChatCompletion(t, key) ==
    /\ running = None
    /\ task[t].pc = "idle"
    /\ task' = [task EXCEPT ![t] = [IdleTask EXCEPT !.pc = "get_model", !.op = "chat", !.key = key]]
    /\ active_inferences' = RecordInferenceStart(active_inferences)
    /\ UNCHANGED <<model_cache_size, api_key_usage, in_progress, api_keys, request, response, cleaned_response, last_response,
                   backend, max_model_cache_size, models_cache, last_access, load_times,
                   vllm_engines, cache_lock, mlx_lock, mlx_holder, mlx_waiters, running,
                   executor, ntimeouts, now, mem_low, last_hit, last_evict>>

\* POST /v1/models/preload: already cached, 413, or wait_for(get_model(...))
PreloadModel(t, key) ==
    /\ running = None
    /\ cache_lock = None
    /\ task[t].pc = "idle"
    /\ task' = [task EXCEPT ![t] =
                  IF key \in CacheKeys THEN IdleTask
                  ELSE IF Len(models_cache) >= max_model_cache_size /\ mem_low
                       THEN IdleTask
                       ELSE [IdleTask EXCEPT !.pc = "get_model", !.op = "preload", !.key = key]]
    /\ last_response' =
         IF key \in CacheKeys THEN Respond("preload", key, PreloadStatus("none"), "none")
         ELSE IF Len(models_cache) >= max_model_cache_size /\ mem_low
              THEN Respond("preload", key, PreloadStatus("cache_full"), "cache_full")
              ELSE last_response
    /\ UNCHANGED <<model_cache_size, api_key_usage, in_progress, api_keys, request, active_inferences, response, cleaned_response,
                   backend, max_model_cache_size, models_cache, last_access, load_times,
                   vllm_engines, cache_lock, mlx_lock, mlx_holder, mlx_waiters, running,
                   executor, ntimeouts, now, mem_low, last_hit, last_evict>>

\* GetModelHit with the cache lookup placed inside `async with mlx_lock`: a hit
\* queues behind the backend call that owns the lock
GetModelHitUnderMlxLock(t) ==
    LET key == task[t].key IN
    /\ running = None
    /\ cache_lock = None
    /\ task[t].pc = "get_model"
    /\ key \in CacheKeys
    /\ IF backend = "mlx" /\ mlx_holder # None
       THEN /\ mlx_waiters' = Append(mlx_waiters, t)
            /\ task' = [task EXCEPT ![t].pc = "load_wait"]
            /\ UNCHANGED <<last_access, models_cache, last_hit, running, last_response>>
       ELSE /\ last_access' = DictSet(last_access, key, now)
            /\ models_cache' = MoveToEnd(models_cache, key)
            /\ last_hit' = key
            /\ IF task[t].op = "chat"
               THEN /\ task' = [task EXCEPT ![t].pc = "got_model",
                                            ![t].model_data =
                                                models_cache[DictGet(models_cache, key)].v]
                    /\ running' = t
               ELSE /\ task' = [task EXCEPT ![t] = IdleTask]
                    /\ running' = None
            /\ last_response' = IF task[t].op = "chat" THEN last_response ELSE Answer(t, "none")
            /\ UNCHANGED mlx_waiters
    /\ model_cache_size' = IF task[t].op = "preload" /\ task'[t].pc = "idle"
                         THEN SetGauge(Len(models_cache'))
                         ELSE model_cache_size
    /\ UNCHANGED <<api_key_usage, in_progress, api_keys, request, active_inferences, response, cleaned_response,
                   backend, max_model_cache_size, load_times, vllm_engines, cache_lock,
                   mlx_lock, mlx_holder, executor, ntimeouts, now, mem_low,
                   last_evict>>

\* get_model, cache hit: refresh the access time, move to the end, return
GetModelHit(t) ==
    LET key == task[t].key IN
    /\ running = None
    /\ cache_lock = None
    /\ task[t].pc = "get_model"
    /\ key \in CacheKeys
    /\ RecordCacheOperation("hit", t) = "done"
    /\ last_access' = DictSet(last_access, key, now)
    /\ models_cache' = MoveToEnd(models_cache, key)
    /\ last_hit' = key
    /\ IF task[t].op = "chat"
       THEN /\ task' = [task EXCEPT ![t].pc = "got_model",
                                    ![t].model_data = models_cache[DictGet(models_cache, key)].v]
            /\ running' = t
       ELSE /\ task' = [task EXCEPT ![t] = IdleTask]
            /\ running' = None
    /\ last_response' = IF task[t].op = "chat" THEN last_response ELSE Answer(t, "none")
    /\ model_cache_size' = IF task[t].op = "preload" /\ task'[t].pc = "idle"
                         THEN SetGauge(Len(models_cache'))
                         ELSE model_cache_size
    /\ UNCHANGED <<api_key_usage, in_progress, api_keys, request, active_inferences, response, cleaned_response,
                   backend, max_model_cache_size, load_times, vllm_engines, cache_lock,
                   mlx_lock, mlx_holder, mlx_waiters, executor, ntimeouts, now, mem_low,
                   last_evict>>

\* get_model, cache miss: record_cache_operation('load') sets the gauge to the
\* present cache size; take the MLX lock if there is one and start the
\* backend load (mlx, cpu: on a worker thread; vllm: in place)
GetModelMiss(t) ==
    LET key == task[t].key IN
    /\ running = None
    /\ cache_lock = None
    /\ task[t].pc = "get_model"
    /\ key \notin CacheKeys
    /\ RecordCacheOperation("load", None) = "done"
    /\ mlx_lock' = GetMlxLock
    /\ IF backend = "mlx" /\ mlx_holder # None
       THEN /\ mlx_waiters' = Append(mlx_waiters, t)
            /\ task' = [task EXCEPT ![t].pc = "load_wait"]
            /\ UNCHANGED <<mlx_holder, executor, vllm_engines, running, last_response>>
       ELSE /\ UNCHANGED mlx_waiters
            /\ IF backend = "vllm"
               THEN /\ \E outcome \in Outcomes, late \in LoadOutlasts :
                         IF outcome = "ok"
                         THEN /\ vllm_engines' = DictSet(vllm_engines, key, NewHandle(key))
                              /\ task' = [task EXCEPT ![t].pc = "loaded",
                                                      ![t].model_data = NewHandle(key),
                                                      ![t].late = late]
                              /\ running' = t
                              /\ UNCHANGED last_response
                         ELSE /\ task' = [task EXCEPT ![t] =
                                            IdleTask]
                              /\ last_response' = AnswerLate(t, LoadCause(outcome), late)
                              /\ UNCHANGED <<vllm_engines, running>>
                    /\ UNCHANGED <<mlx_holder, executor>>
               ELSE /\ mlx_holder' = IF backend = "mlx" THEN t ELSE mlx_holder
                    /\ executor' = executor \cup {Job(t, "load")}
                    /\ task' = [task EXCEPT ![t].pc = "loading"]
                    /\ UNCHANGED <<vllm_engines, running, last_response>>
    /\ active_inferences' = IF task'[t].pc = "idle" THEN ChatAnswered(t) ELSE active_inferences
    /\ model_cache_size' = SetGauge(Len(models_cache))
    /\ UNCHANGED <<api_key_usage, in_progress, api_keys, request, response, cleaned_response,
                   backend, max_model_cache_size, models_cache, last_access, load_times,
                   cache_lock, ntimeouts, now, mem_low, last_hit, last_evict>>

\* get_model resumes owning the MLX lock and starts the load on a worker thread
LoadAfterLock(t) ==
    /\ running = None
    /\ task[t].pc = "load_wait"
    /\ mlx_holder = t
    /\ executor' = executor \cup {Job(t, "load")}
    /\ task' = [task EXCEPT ![t].pc = "loading"]
    /\ UNCHANGED <<model_cache_size, api_key_usage, in_progress, api_keys, request, active_inferences, response, cleaned_response, last_response,
                   backend, max_model_cache_size, models_cache, last_access, load_times,
                   vllm_engines, cache_lock, mlx_lock, mlx_holder, mlx_waiters, running,
                   ntimeouts, now, mem_low, last_hit, last_evict>>

\* LoadReturn inside a retry loop: after a failed load get_model starts over
LoadReturnRetries(t, outcome) ==
    /\ running = None
    /\ task[t].pc = "loading"
    /\ executor' = executor \ {JobOf(t)}
    /\ IF backend = "mlx"
       THEN /\ mlx_holder' = ReleasedHolder
            /\ mlx_waiters' = ReleasedWaiters
       ELSE UNCHANGED <<mlx_holder, mlx_waiters>>
    /\ IF outcome = "ok"
       THEN /\ task' = [task EXCEPT ![t].pc = "loaded", ![t].model_data = JobOf(t).id]
            /\ running' = t
       ELSE /\ task' = [task EXCEPT ![t].pc = "get_model"]
            /\ running' = None
    /\ UNCHANGED <<model_cache_size, api_key_usage, in_progress, api_keys, request, active_inferences, response, cleaned_response, last_response,
                   backend, max_model_cache_size, models_cache, last_access, load_times,
                   vllm_engines, cache_lock, mlx_lock, ntimeouts, now, mem_low, last_hit,
                   last_evict>>

\* LoadReturn with the load time recorded in a `finally`: a failed load
\* leaves its key in _load_times
LoadReturnTimesFailedLoad(t, outcome) ==
    /\ running = None
    /\ task[t].pc = "loading"
    /\ executor' = executor \ {JobOf(t)}
    /\ IF backend = "mlx"
       THEN /\ mlx_holder' = ReleasedHolder
            /\ mlx_waiters' = ReleasedWaiters
       ELSE UNCHANGED <<mlx_holder, mlx_waiters>>
    /\ IF outcome = "ok"
       THEN /\ task' = [task EXCEPT ![t].pc = "loaded", ![t].model_data = JobOf(t).id]
            /\ running' = t
            /\ UNCHANGED <<last_response, load_times>>
       ELSE /\ task' = [task EXCEPT ![t] = IdleTask]
            /\ running' = None
            /\ load_times' = load_times \cup {task[t].key}
            /\ last_response' = Answer(t, LoadCause(outcome))
    /\ active_inferences' = IF task'[t].pc = "idle" THEN ChatAnswered(t) ELSE active_inferences
    /\ UNCHANGED <<model_cache_size, api_key_usage, in_progress, api_keys, request, response, cleaned_response,
                   backend, max_model_cache_size, models_cache, last_access,
                   vllm_engines, cache_lock, mlx_lock, ntimeouts, now, mem_low, last_hit,
                   last_evict>>

\* the backend load ends; the MLX lock is released on the way out of `async with`
LoadReturn(t, outcome) ==
    /\ running = None
    /\ task[t].pc = "loading"
    /\ executor' = executor \ {JobOf(t)}
    /\ IF backend = "mlx"
       THEN /\ mlx_holder' = ReleasedHolder
            /\ mlx_waiters' = ReleasedWaiters
       ELSE UNCHANGED <<mlx_holder, mlx_waiters>>
    /\ IF outcome = "ok"
       THEN /\ task' = [task EXCEPT ![t].pc = "loaded", ![t].model_data = JobOf(t).id]
            /\ running' = t
            /\ UNCHANGED last_response
       ELSE /\ task' = [task EXCEPT ![t] = IdleTask]
            /\ running' = None
            /\ last_response' = Answer(t, LoadCause(outcome))
    /\ active_inferences' = IF task'[t].pc = "idle" THEN ChatAnswered(t) ELSE active_inferences
    /\ UNCHANGED <<model_cache_size, api_key_usage, in_progress, api_keys, request, response, cleaned_response,
                   backend, max_model_cache_size, models_cache, last_access, load_times,
                   vllm_engines, cache_lock, mlx_lock, ntimeouts, now, mem_low, last_hit,
                   last_evict>>

\* SetLoadTime without `self._load_times[model_name] = load_time`
SetLoadTimeNotRecorded(t) ==
    /\ running = t
    /\ task[t].pc = "loaded"
    /\ task' = [task EXCEPT ![t].pc = "evict_loop"]
    /\ UNCHANGED <<model_cache_size, api_key_usage, in_progress, api_keys, request, active_inferences, response, cleaned_response, last_response, load_times,
                   backend, max_model_cache_size, models_cache, last_access,
                   vllm_engines, cache_lock, mlx_lock, mlx_holder, mlx_waiters, running,
                   executor, ntimeouts, now, mem_low, last_hit, last_evict>>

\* self._load_times[model_name] = load_time
SetLoadTime(t) ==
    /\ running = t
    /\ task[t].pc = "loaded"
    /\ load_times' = load_times \cup {task[t].key}
    /\ task' = [task EXCEPT ![t].pc = "evict_loop"]
    /\ UNCHANGED <<model_cache_size, api_key_usage, in_progress, api_keys, request, active_inferences, response, cleaned_response, last_response,
                   backend, max_model_cache_size, models_cache, last_access,
                   vllm_engines, cache_lock, mlx_lock, mlx_holder, mlx_waiters, running,
                   executor, ntimeouts, now, mem_low, last_hit, last_evict>>

\* while self._should_evict_model(): condition true, enter the loop body
EvictLoopTest(t) ==
    /\ running = t
    /\ task[t].pc = "evict_loop"
    /\ ShouldEvict
    /\ task' = [task EXCEPT ![t].pc = "evict_call", ![t].why = EvictReasons]
    /\ UNCHANGED <<model_cache_size, api_key_usage, in_progress, api_keys, request, active_inferences, response, cleaned_response, last_response,
                   backend, max_model_cache_size, models_cache, last_access, load_times,
                   vllm_engines, cache_lock, mlx_lock, mlx_holder, mlx_waiters, running,
                   executor, ntimeouts, now, mem_low, last_hit, last_evict>>
\* the handler's part after get_model returned to it
AfterGetModel(t) ==
    IF task[t].op = "chat"
    THEN [task[t] EXCEPT !.pc = "got_model"]
    ELSE IdleTask

\* CacheInsert with `self._last_access[model_name] = load_time`: the duration
\* of the load, which is below every time.time() value, taken as 0
CacheInsertStoresLoadDuration(t) ==
    LET key == task[t].key IN
    /\ running = t
    /\ cache_lock = None
    /\ task[t].pc = "evict_loop"
    /\ ~ShouldEvict
    /\ models_cache' = DictSet(models_cache, key, task[t].model_data)
    /\ last_access' = DictSet(last_access, key, 0)
    /\ last_hit' = IF last_hit = key THEN key ELSE None
    /\ task' = [task EXCEPT ![t] = AfterGetModel(t)]
    /\ running' = IF task[t].op = "chat" THEN t ELSE None
    /\ last_response' = IF task[t].op = "chat" THEN last_response ELSE Answer(t, "none")
    /\ model_cache_size' = IF task[t].op = "preload" /\ task'[t].pc = "idle"
                         THEN SetGauge(Len(models_cache'))
                         ELSE model_cache_size
    /\ UNCHANGED <<api_key_usage, in_progress, api_keys, request, active_inferences, response, cleaned_response,
                   backend, max_model_cache_size, load_times, vllm_engines, cache_lock,
                   mlx_lock, mlx_holder, mlx_waiters, executor, ntimeouts, now, mem_low,
                   last_evict>>

\* while self._should_evict_model(): condition false; add to the cache and
\* return; preload_model then sets the gauge (models.py 90-91), chat_completion
\* does not
CacheInsert(t) ==
    LET key == task[t].key IN
    /\ running = t
    /\ cache_lock = None
    /\ task[t].pc = "evict_loop"
    /\ ~ShouldEvict
    /\ models_cache' = DictSet(models_cache, key, task[t].model_data)
    /\ last_access' = DictSet(last_access, key, now)
    /\ last_hit' = IF last_hit = key THEN key ELSE None
    /\ task' = [task EXCEPT ![t] = AfterGetModel(t)]
    /\ running' = IF task[t].op = "chat" THEN t ELSE None
    /\ last_response' = IF task[t].op = "chat" THEN last_response ELSE Answer(t, "none")
    /\ model_cache_size' = IF task[t].op = "preload" /\ task'[t].pc = "idle"
                         THEN SetGauge(Len(models_cache'))
                         ELSE model_cache_size
    /\ UNCHANGED <<api_key_usage, in_progress, api_keys, request, active_inferences, response, cleaned_response,
                   backend, max_model_cache_size, load_times, vllm_engines, cache_lock,
                   mlx_lock, mlx_holder, mlx_waiters, executor, ntimeouts, now, mem_low,
                   last_evict>>

\* _evict_least_recently_used
EvictLeastRecentlyUsed(t) ==
    /\ running = t
    /\ task[t].pc = "evict_call"
    /\ IF models_cache = <<>>
       THEN \* if not self._models_cache: return
            /\ task' = [task EXCEPT ![t].pc = "evict_loop"]
            /\ UNCHANGED <<models_cache, last_access, load_times, cache_lock, running,
                           last_hit, last_evict, last_response>>
       ELSE IF last_access = <<>>
       THEN \* min() of an empty sequence raises
            /\ task' = [task EXCEPT ![t] = IdleTask]
            /\ running' = None
            /\ last_response' = Answer(t, "evict_error")
            /\ UNCHANGED <<models_cache, last_access, load_times, cache_lock,
                           last_hit, last_evict>>
       ELSE LET lru_model == LruKey(last_access) IN
            /\ cache_lock = None
            /\ IF lru_model \notin CacheKeys
               THEN /\ task' = [task EXCEPT ![t].pc = "evict_loop"]
                    /\ UNCHANGED <<models_cache, last_access, load_times, cache_lock,
                                   running, last_hit, last_evict, last_response>>
               ELSE /\ models_cache' = DictDel(models_cache, lru_model)
                    /\ last_access' = DictDel(last_access, lru_model)
                    /\ last_hit' = None
                    /\ last_evict' =
                         [k |-> lru_model, hit |-> last_hit,
                          others |-> (CacheKeys \ {last_hit}) # {},
                          colder |-> /\ DictHas(last_access, last_hit)
                                     /\ \E i \in DOMAIN last_access :
                                          last_access[i].v <
                                            last_access[DictGet(last_access, last_hit)].v]
                    /\ IF lru_model \notin load_times
                       THEN \* del self._load_times[lru_model] raises KeyError
                            /\ task' = [task EXCEPT ![t] = IdleTask]
                            /\ running' = None
                            /\ last_response' = Answer(t, "evict_error")
                            /\ UNCHANGED <<load_times, cache_lock>>
                       ELSE /\ load_times' = load_times \ {lru_model}
                            /\ IF RecordCacheOperation("eviction", t) = "blocked"
                               THEN /\ task' = [task EXCEPT
                                                  ![t].pc = "blocked",
                                                  ![t].evicted = Append(@, lru_model)]
                                    /\ cache_lock' = t
                               ELSE /\ task' = [task EXCEPT
                                                  ![t].pc = "evict_loop",
                                                  ![t].evicted = Append(@, lru_model)]
                                    /\ cache_lock' = None
                            /\ UNCHANGED <<running, last_response>>
    /\ active_inferences' = IF task'[t].pc = "idle" THEN ChatAnswered(t) ELSE active_inferences
    /\ model_cache_size' = IF task'[t].pc = "evict_loop" /\ models_cache' # models_cache
                         THEN SetGauge(Len(models_cache'))
                         ELSE model_cache_size
    /\ UNCHANGED <<api_key_usage, in_progress, api_keys, request, response, cleaned_response,
                   backend, max_model_cache_size, vllm_engines, mlx_lock, mlx_holder,
                   mlx_waiters, executor, ntimeouts, now, mem_low>>

\* generate_response after get_model: take the MLX lock if there is one and
\* start the backend generate
GenerateStart(t) ==
    /\ running = t
    /\ task[t].pc = "got_model"
    /\ mlx_lock' = GetMlxLock
    /\ running' = None
    /\ IF backend = "mlx" /\ mlx_holder # None
       THEN /\ mlx_waiters' = Append(mlx_waiters, t)
            /\ task' = [task EXCEPT ![t].pc = "gen_wait"]
            /\ UNCHANGED <<mlx_holder, executor>>
       ELSE /\ mlx_holder' = IF backend = "mlx" THEN t ELSE mlx_holder
            /\ executor' = executor \cup {Job(t, "generate")}
            /\ task' = [task EXCEPT ![t].pc = "generating"]
            /\ UNCHANGED mlx_waiters
    /\ UNCHANGED <<model_cache_size, api_key_usage, in_progress, api_keys, request, active_inferences, response, cleaned_response, last_response,
                   backend, max_model_cache_size, models_cache, last_access, load_times,
                   vllm_engines, cache_lock, ntimeouts, now, mem_low, last_hit,
                   last_evict>>

\* generate_response resumes owning the MLX lock and starts the generate
GenerateAfterLock(t) ==
    /\ running = None
    /\ task[t].pc = "gen_wait"
    /\ mlx_holder = t
    /\ executor' = executor \cup {Job(t, "generate")}
    /\ task' = [task EXCEPT ![t].pc = "generating"]
    /\ UNCHANGED <<model_cache_size, api_key_usage, in_progress, api_keys, request, active_inferences, response, cleaned_response, last_response,
                   backend, max_model_cache_size, models_cache, last_access, load_times,
                   vllm_engines, cache_lock, mlx_lock, mlx_holder, mlx_waiters, running,
                   ntimeouts, now, mem_low, last_hit, last_evict>>

\* the backend generate ends; the handler answers 200, or 500 when it raised.
\* A task whose deadline expired during its load is cancelled at this await
\* before any result can arrive (Timeout).
\* An empty cleaned text passes record_inference_end (chat.py 164) and then
\* fails the validator of Message(role="assistant", content=response_text)
\* (schemas.py 10-14); `except Exception` calls record_inference_end again
\* and answers 500
GenerateReturn(t, outcome) ==
    /\ running = None
    /\ task[t].pc = "generating"
    /\ ~task[t].late
    /\ executor' = executor \ {JobOf(t)}
    /\ IF backend = "mlx"
       THEN /\ mlx_holder' = ReleasedHolder
            /\ mlx_waiters' = ReleasedWaiters
       ELSE UNCHANGED <<mlx_holder, mlx_waiters>>
    /\ task' = [task EXCEPT ![t] = IdleTask]
    /\ last_response' = Answer(t, IF outcome = "ok" THEN "none"
                                   ELSE IF outcome = "empty" THEN "empty_response"
                                   ELSE "generate_error")
    /\ active_inferences' = IF outcome = "empty" THEN ChatAnsweredInvalid(t) ELSE ChatAnswered(t)
    /\ UNCHANGED <<model_cache_size, api_key_usage, in_progress, api_keys, request, response, cleaned_response,
                   backend, max_model_cache_size, models_cache, last_access, load_times,
                   vllm_engines, cache_lock, mlx_lock, running, ntimeouts, now, mem_low,
                   last_hit, last_evict>>

\* asyncio.wait_for expires: the task is cancelled at its await, leaves
\* `async with` (releasing the MLX lock) and the handler answers 504; a call
\* already running on a worker thread keeps running
Timeout(t) ==
    /\ running = None
    /\ task[t].pc \in {"load_wait", "loading", "gen_wait", "generating"}
    /\ ntimeouts < MaxTimeouts \/ task[t].late
    /\ ntimeouts' = IF task[t].late THEN ntimeouts ELSE ntimeouts + 1
    /\ IF task[t].pc \in {"load_wait", "gen_wait"}
       THEN /\ IF mlx_holder = t
               THEN /\ mlx_holder' = ReleasedHolder
                    /\ mlx_waiters' = ReleasedWaiters
               ELSE /\ mlx_waiters' = WithoutWaiter(t)
                    /\ UNCHANGED mlx_holder
            /\ UNCHANGED executor
       ELSE /\ IF backend = "mlx"
               THEN /\ mlx_holder' = ReleasedHolder
                    /\ mlx_waiters' = ReleasedWaiters
               ELSE UNCHANGED <<mlx_holder, mlx_waiters>>
            /\ executor' = IF backend = "vllm"
                           THEN executor \ {JobOf(t)}
                           ELSE (executor \ {JobOf(t)})
                                    \cup {[JobOf(t) EXCEPT !.task = None,
                                                            !.orphan = ntimeouts + 1]}
    /\ task' = [task EXCEPT ![t] = IdleTask]
    /\ last_response' = Answer(t, "timeout")
    /\ active_inferences' = ChatAnswered(t)
    /\ UNCHANGED <<model_cache_size, api_key_usage, in_progress, api_keys, request, response, cleaned_response,
                   backend, max_model_cache_size, models_cache, last_access, load_times,
                   vllm_engines, cache_lock, mlx_lock, running, now, mem_low,
                   last_hit, last_evict>>

\* AbandonedCallEnds for a load whose result is still put into the cache (the
\* load shielded from the cancellation and finishing get_model's insertion)
AbandonedLoadStillInserts(j) ==
    /\ j \in executor
    /\ j.task = None
    /\ executor' = executor \ {j}
    /\ IF j.kind = "load"
       THEN /\ models_cache' = DictSet(models_cache, j.key, j.id)
            /\ last_access' = DictSet(last_access, j.key, now)
            /\ load_times' = load_times \cup {j.key}
       ELSE UNCHANGED <<models_cache, last_access, load_times>>
    /\ UNCHANGED <<model_cache_size, api_key_usage, in_progress, api_keys, request, active_inferences, response, cleaned_response, last_response,
                   backend, max_model_cache_size,
                   vllm_engines, cache_lock, mlx_lock, mlx_holder, mlx_waiters, running,
                   task, ntimeouts, now, mem_low, last_hit, last_evict>>

\* a backend call whose caller was cancelled ends on its worker thread
AbandonedCallEnds(j) ==
    /\ j \in executor
    /\ j.task = None
    /\ executor' = executor \ {j}
    /\ UNCHANGED <<model_cache_size, api_key_usage, in_progress, api_keys, request, active_inferences, response, cleaned_response, last_response,
                   backend, max_model_cache_size, models_cache, last_access, load_times,
                   vllm_engines, cache_lock, mlx_lock, mlx_holder, mlx_waiters, running,
                   task, ntimeouts, now, mem_low, last_hit, last_evict>>

\* RemoveModelFromCache without `del model_manager._load_times[model_name]`
RemoveModelFromCacheLeavesLoadTime(key) ==
    /\ running = None
    /\ cache_lock = None
    /\ IF key \notin CacheKeys
       THEN UNCHANGED <<models_cache, last_access, last_hit>>
       ELSE /\ models_cache' = DictDel(models_cache, key)
            /\ last_access' = DictDel(last_access, key)
            /\ last_hit' = IF last_hit = key THEN None ELSE last_hit
    /\ last_response' = Respond("remove", key, IF key \in CacheKeys THEN 200 ELSE 404, "none")
    /\ model_cache_size' = IF key \in CacheKeys THEN SetGauge(Len(models_cache'))
                         ELSE model_cache_size
    /\ UNCHANGED <<api_key_usage, in_progress, api_keys, request, active_inferences, response, cleaned_response, load_times,
                   backend, max_model_cache_size, vllm_engines, cache_lock, mlx_lock,
                   mlx_holder, mlx_waiters, running, task, executor, ntimeouts, now, mem_low,
                   last_evict>>

\* DELETE /v1/models/cache/{model_name}
RemoveModelFromCache(key) ==
    /\ running = None
    /\ cache_lock = None
    /\ IF key \notin CacheKeys
       THEN UNCHANGED <<models_cache, last_access, load_times, last_hit>>
       ELSE /\ models_cache' = DictDel(models_cache, key)
            /\ last_access' = DictDel(last_access, key)
            /\ load_times' = load_times \ {key}
            /\ last_hit' = IF last_hit = key THEN None ELSE last_hit
    /\ last_response' = Respond("remove", key, IF key \in CacheKeys THEN 200 ELSE 404, "none")
    /\ model_cache_size' = IF key \in CacheKeys THEN SetGauge(Len(models_cache'))
                         ELSE model_cache_size
    /\ UNCHANGED <<api_key_usage, in_progress, api_keys, request, active_inferences, response, cleaned_response,
                   backend, max_model_cache_size, vllm_engines, cache_lock, mlx_lock,
                   mlx_holder, mlx_waiters, running, task, executor, ntimeouts, now, mem_low,
                   last_evict>>

\* clear_cache without `self._last_access.clear()`
ClearCacheKeepsLastAccess ==
    /\ running = None
    /\ cache_lock = None
    /\ models_cache' = <<>>
    /\ load_times' = {}
    /\ last_hit' = None
    /\ last_response' = Respond("clear", None, 200, "none")
    /\ model_cache_size' = SetGauge(0)
    /\ UNCHANGED <<api_key_usage, in_progress, api_keys, request, active_inferences, response, cleaned_response,
                   last_access,
                   backend, max_model_cache_size, vllm_engines, cache_lock, mlx_lock,
                   mlx_holder, mlx_waiters, running, task, executor, ntimeouts, now, mem_low,
                   last_evict>>

\* clear_cache (DELETE /v1/models/cache)
ClearCache ==
    /\ running = None
    /\ cache_lock = None
    /\ models_cache' = <<>>
    /\ last_access' = <<>>
    /\ load_times' = {}
    /\ last_hit' = None
    /\ last_response' = Respond("clear", None, 200, "none")
    /\ model_cache_size' = SetGauge(0)
    /\ UNCHANGED <<api_key_usage, in_progress, api_keys, request, active_inferences, response, cleaned_response,
                   backend, max_model_cache_size, vllm_engines, cache_lock, mlx_lock,
                   mlx_holder, mlx_waiters, running, task, executor, ntimeouts, now, mem_low,
                   last_evict>>

\* ---- environment ----

\* time.time() advances
Tick ==
    /\ now < MaxTime
    /\ now' = now + 1
    /\ UNCHANGED <<model_cache_size, api_key_usage, in_progress, api_keys, request, active_inferences, response, cleaned_response, last_response,
                   backend, max_model_cache_size, models_cache, last_access, load_times,
                   vllm_engines, cache_lock, mlx_lock, mlx_holder, mlx_waiters, running,
                   task, executor, ntimeouts, mem_low, last_hit, last_evict>>

\* available memory crosses the 2 GB floor
MemoryChange ==
    /\ mem_low' = ~mem_low
    /\ UNCHANGED <<model_cache_size, api_key_usage, in_progress, api_keys, request, active_inferences, response, cleaned_response, last_response,
                   backend, max_model_cache_size, models_cache, last_access, load_times,
                   vllm_engines, cache_lock, mlx_lock, mlx_holder, mlx_waiters, running,
                   task, executor, ntimeouts, now, last_hit, last_evict>>

Next ==
    \/ \E t \in Tasks, key \in Keys : ChatCompletion(t, key)
    \/ \E t \in Tasks, key \in Keys : PreloadModel(t, key)
    \/ \E t \in Tasks : GetModelHit(t)
    \/ \E t \in Tasks : GetModelMiss(t)
    \/ \E t \in Tasks : LoadAfterLock(t)
    \/ \E t \in Tasks, outcome \in Outcomes : LoadReturn(t, outcome)
    \/ \E t \in Tasks : SetLoadTime(t)
    \/ \E t \in Tasks : EvictLoopTest(t)
    \/ \E t \in Tasks : CacheInsert(t)
    \/ \E t \in Tasks : EvictLeastRecentlyUsed(t)
    \/ \E t \in Tasks : GenerateStart(t)
    \/ \E t \in Tasks : GenerateAfterLock(t)
    \/ \E t \in Tasks, outcome \in GenerateOutcomes : GenerateReturn(t, outcome)
    \/ \E t \in Tasks : Timeout(t)
    \/ \E j \in executor : AbandonedCallEnds(j)
    \/ \E key \in Keys : RemoveModelFromCache(key)
    \/ ClearCache
    \/ Tick
    \/ MemoryChange

Spec == Init /\ [][Next]_vars

\* ---- concurrent requests with room in the cache for every key: no
\* ---- get_model finds the cache full
InitOrder ==
    /\ InitWith({RoomyCapacity})
    /\ last_response = Unobserved
    /\ NoText
    /\ NoTraffic

SpecOrder == InitOrder /\ [][Next]_vars

\* ---- one client at a time: requests are issued by a single task, so no
\* ---- request starts before the previous one has been answered
InitSerial ==
    /\ InitWith(1..MaxSerialCapacity)
    /\ last_response = Unobserved
    /\ NoText
    /\ NoTraffic

NextSerial ==
    \/ \E key \in SerialKeys : ChatCompletion(1, key)
    \/ \E key \in SerialKeys : PreloadModel(1, key)
    \/ GetModelHit(1)
    \/ GetModelMiss(1)
    \/ \E outcome \in Outcomes : LoadReturn(1, outcome)
    \/ SetLoadTime(1)
    \/ EvictLoopTest(1)
    \/ CacheInsert(1)
    \/ EvictLeastRecentlyUsed(1)
    \/ GenerateStart(1)
    \/ \E outcome \in GenerateOutcomes : GenerateReturn(1, outcome)
    \/ Timeout(1)
    \/ \E j \in executor : AbandonedCallEnds(j)
    \/ \E key \in SerialKeys : RemoveModelFromCache(key)
    \/ ClearCache
    \/ Tick
    \/ MemoryChange

SpecSerial == InitSerial /\ [][NextSerial]_vars

\* ---- one client at a time, with the response to each request followed
InitAnswers ==
    /\ InitWith(1..MaxCapacity)
    /\ last_response = NoResponse
    /\ NoText
    /\ NoTraffic

NextAnswers ==
    \/ \E key \in Keys : ChatCompletion(1, key)
    \/ \E key \in Keys : PreloadModel(1, key)
    \/ GetModelHit(1)
    \/ GetModelMiss(1)
    \/ \E outcome \in Outcomes : LoadReturn(1, outcome)
    \/ SetLoadTime(1)
    \/ EvictLoopTest(1)
    \/ CacheInsert(1)
    \/ EvictLeastRecentlyUsed(1)
    \/ GenerateStart(1)
    \/ \E outcome \in GenerateOutcomes : GenerateReturn(1, outcome)
    \/ Timeout(1)
    \/ \E j \in executor : AbandonedCallEnds(j)
    \/ \E key \in Keys : RemoveModelFromCache(key)
    \/ ClearCache
    \/ Tick
    \/ MemoryChange

SpecAnswers == InitAnswers /\ [][NextAnswers]_vars

\* the gauge is refreshed from get_cache_info: by the background task
\* start_metrics_collection every 5 seconds and by each Prometheus scrape
UpdateMetrics ==
    /\ running = None
    /\ cache_lock = None
    /\ model_cache_size # Len(models_cache)
    /\ model_cache_size' = SetGauge(Len(models_cache))
    /\ UNCHANGED <<api_key_usage, in_progress, api_keys, request, active_inferences,
                   response, cleaned_response, last_response,
                   backend, max_model_cache_size, models_cache, last_access, load_times,
                   vllm_engines, cache_lock, mlx_lock, mlx_holder, mlx_waiters, running,
                   task, executor, ntimeouts, now, mem_low, last_hit, last_evict>>

\* ---- one client at a time, with the model_cache_size gauge followed
InitGauge ==
    /\ InitWith(1..MaxCapacity)
    /\ last_response = Unobserved
    /\ NoText
    /\ active_inferences = NotCounted
    /\ api_keys = NoApiKeys
    /\ request = NoRequest
    /\ api_key_usage = {}
    /\ in_progress = {}
    /\ model_cache_size = 0

NextGauge ==
    \/ \E key \in Keys : ChatCompletion(1, key)
    \/ \E key \in Keys : PreloadModel(1, key)
    \/ GetModelHit(1)
    \/ GetModelMiss(1)
    \/ \E outcome \in Outcomes : LoadReturn(1, outcome)
    \/ SetLoadTime(1)
    \/ EvictLoopTest(1)
    \/ CacheInsert(1)
    \/ EvictLeastRecentlyUsed(1)
    \/ GenerateStart(1)
    \/ \E outcome \in GenerateOutcomes : GenerateReturn(1, outcome)
    \/ Timeout(1)
    \/ \E j \in executor : AbandonedCallEnds(j)
    \/ \E key \in Keys : RemoveModelFromCache(key)
    \/ ClearCache
    \/ Tick
    \/ MemoryChange
    \/ UpdateMetrics

SpecGauge == InitGauge /\ [][NextGauge]_vars

\* ---- two clients sending chat completions, with the inference counter followed
InitInference ==
    /\ InitWith(1..MaxCapacity)
    /\ last_response = Unobserved
    /\ NoText
    /\ active_inferences = 0
    /\ api_keys = NoApiKeys
    /\ request = NoRequest
    /\ api_key_usage = {}
    /\ in_progress = {}
    /\ model_cache_size = NotGauged

NextInference ==
    \/ \E t \in Tasks, key \in Keys : ChatCompletion(t, key)
    \/ \E t \in Tasks : GetModelHit(t)
    \/ \E t \in Tasks : GetModelMiss(t)
    \/ \E t \in Tasks : LoadAfterLock(t)
    \/ \E t \in Tasks, outcome \in Outcomes : LoadReturn(t, outcome)
    \/ \E t \in Tasks : SetLoadTime(t)
    \/ \E t \in Tasks : EvictLoopTest(t)
    \/ \E t \in Tasks : CacheInsert(t)
    \/ \E t \in Tasks : EvictLeastRecentlyUsed(t)
    \/ \E t \in Tasks : GenerateStart(t)
    \/ \E t \in Tasks : GenerateAfterLock(t)
    \/ \E t \in Tasks, outcome \in GenerateOutcomes : GenerateReturn(t, outcome)
    \/ \E t \in Tasks : Timeout(t)
    \/ \E j \in executor : AbandonedCallEnds(j)
    \/ MemoryChange

SpecInference == InitInference /\ [][NextInference]_vars

\* one request goes through AuthenticationMiddleware.dispatch and, when the
\* middleware calls call_next, through the dependencies of its route.
\* status 0: the handler runs and answers.  HTTPBearer refuses a request
\* without a Bearer Authorization header before get_current_api_key runs,
\* with 403 or 401 depending on the FastAPI version.
\* dispatch calls verify_api_key on the event loop thread, so its SELECT and
\* UPDATE are one step, and then awaits call_next: the request stays in
\* progress until log_api_usage.  get_current_api_key is a plain `def`
\* dependency, which FastAPI runs on a worker thread: its verify_api_key has
\* passed the SELECT and the expiry test here and issues its UPDATE later
\* (VerifyApiKeyUpdate); it returns the selected row whatever the UPDATE finds
Dispatch(route, authorization, x_api_key) ==
    LET verdict == MiddlewareVerdict(route.path, authorization, x_api_key)
        api_key == PresentedKey(authorization, x_api_key)
        bearer == authorization.credentials
        sent == [method |-> route.method, path |-> route.path, handler |-> route.handler,
                 authorization |-> authorization, x_api_key |-> x_api_key,
                 verified |-> FALSE, handler_ran |-> FALSE, status |-> 0]
    IN
    /\ IF verdict \in {"missing_api_key", "invalid_api_key"}
       THEN /\ request' = [sent EXCEPT !.status = 401]
            /\ UNCHANGED <<api_keys, in_progress>>
       ELSE IF verdict = "verified"
       THEN /\ api_keys[api_key].usage_count < MaxUsage
            /\ [at |-> "call_next", api_key |-> api_key] \notin in_progress
            /\ request' = [sent EXCEPT !.verified = TRUE, !.handler_ran = TRUE]
            /\ api_keys' = AfterVerify(api_key)
            /\ in_progress' = in_progress \cup {[at |-> "call_next", api_key |-> api_key]}
       ELSE IF ~NeedsCurrentApiKey(route.handler)
       THEN /\ request' = [sent EXCEPT !.handler_ran = TRUE]
            /\ UNCHANGED <<api_keys, in_progress>>
       ELSE IF authorization.scheme # "Bearer"
       THEN /\ \E refused \in {401, 403} : request' = [sent EXCEPT !.status = refused]
            /\ UNCHANGED <<api_keys, in_progress>>
       ELSE IF ~VerifyApiKey(bearer)
       THEN /\ request' = [sent EXCEPT !.status = 401]
            /\ UNCHANGED <<api_keys, in_progress>>
       ELSE /\ api_keys[bearer].usage_count < MaxUsage
            /\ [at |-> "selected", api_key |-> bearer] \notin in_progress
            /\ request' = [sent EXCEPT !.verified = TRUE, !.handler_ran = TRUE]
            /\ in_progress' = in_progress \cup {[at |-> "selected", api_key |-> bearer]}
            /\ UNCHANGED api_keys
    /\ UNCHANGED <<model_cache_size, api_key_usage, active_inferences, response,
                   cleaned_response, last_response,
                   backend, max_model_cache_size, models_cache, last_access, load_times,
                   vllm_engines, cache_lock, mlx_lock, mlx_holder, mlx_waiters, running,
                   task, executor, ntimeouts, now, mem_low, last_hit, last_evict>>

\* verify_api_key on a worker thread, after its SELECT: the UPDATE
\* `SET last_used_at = CURRENT_TIMESTAMP, usage_count = usage_count + 1
\* WHERE id = ?` and the commit.  The one statement writes both columns;
\* usage_count stands for the pair
VerifyApiKeyUpdate(r) ==
    /\ r \in in_progress
    /\ r.at = "selected"
    /\ api_keys' = UpdateLastUsed(r.api_key)
    /\ in_progress' = in_progress \ {r}
    /\ UNCHANGED <<model_cache_size, api_key_usage, request, active_inferences, response,
                   cleaned_response, last_response,
                   backend, max_model_cache_size, models_cache, last_access, load_times,
                   vllm_engines, cache_lock, mlx_lock, mlx_holder, mlx_waiters, running,
                   task, executor, ntimeouts, now, mem_low, last_hit, last_evict>>

\* dispatch after call_next returned: log_api_usage inserts a row for the id
\* that verify_api_key returned; an IntegrityError would be caught and logged
LogApiUsage(r) ==
    /\ r \in in_progress
    /\ r.at = "call_next"
    /\ api_key_usage' = IF foreign_keys /\ r.api_key \notin DOMAIN api_keys
                        THEN api_key_usage
                        ELSE api_key_usage \cup {r.api_key}
    /\ in_progress' = in_progress \ {r}
    /\ UNCHANGED <<model_cache_size, api_keys, request, active_inferences, response,
                   cleaned_response, last_response,
                   backend, max_model_cache_size, models_cache, last_access, load_times,
                   vllm_engines, cache_lock, mlx_lock, mlx_holder, mlx_waiters, running,
                   task, executor, ntimeouts, now, mem_low, last_hit, last_evict>>

\* PATCH /auth/keys/{key_id}/deactivate: UPDATE api_keys SET is_active = 0
DeactivateApiKey(k) ==
    /\ k \in DOMAIN api_keys
    /\ api_keys[k].is_active
    /\ api_keys' = [api_keys EXCEPT ![k].is_active = FALSE]
    /\ UNCHANGED <<model_cache_size, api_key_usage, in_progress, request, active_inferences,
                   response, cleaned_response, last_response,
                   backend, max_model_cache_size, models_cache, last_access, load_times,
                   vllm_engines, cache_lock, mlx_lock, mlx_holder, mlx_waiters, running,
                   task, executor, ntimeouts, now, mem_low, last_hit, last_evict>>

\* DELETE /auth/keys/{key_id}: the usage rows of the key, then its row
DeleteApiKey(k) ==
    /\ k \in DOMAIN api_keys
    /\ api_key_usage' = api_key_usage \ {k}
    /\ api_keys' = [x \in DOMAIN api_keys \ {k} |-> api_keys[x]]
    /\ UNCHANGED <<model_cache_size, in_progress, request, active_inferences,
                   response, cleaned_response, last_response,
                   backend, max_model_cache_size, models_cache, last_access, load_times,
                   vllm_engines, cache_lock, mlx_lock, mlx_holder, mlx_waiters, running,
                   task, executor, ntimeouts, now, mem_low, last_hit, last_evict>>

\* an api key reaches its expires_at
KeyExpires(k) ==
    /\ k \in DOMAIN api_keys
    /\ ~api_keys[k].expired
    /\ api_keys' = [api_keys EXCEPT ![k].expired = TRUE]
    /\ UNCHANGED <<model_cache_size, api_key_usage, in_progress, request, active_inferences, response, cleaned_response, last_response,
                   backend, max_model_cache_size, models_cache, last_access, load_times,
                   vllm_engines, cache_lock, mlx_lock, mlx_holder, mlx_waiters, running,
                   task, executor, ntimeouts, now, mem_low, last_hit, last_evict>>

\* the table holds any rows; no request has been seen
InitAuth ==
    /\ InitWith({1})
    /\ last_response = Unobserved
    /\ NoText
    /\ active_inferences = NotCounted
    /\ api_keys \in [ApiKeys -> [is_active : BOOLEAN, expired : BOOLEAN, usage_count : {0}]]
    /\ request = NoRequest
    /\ api_key_usage = {}
    /\ in_progress = {}
    /\ model_cache_size = NotGauged

NextAuth ==
    \/ \E route \in Routes, authorization \in Authorizations, x_api_key \in XApiKeys :
           Dispatch(route, authorization, x_api_key)
    \/ \E r \in in_progress : VerifyApiKeyUpdate(r)
    \/ \E r \in in_progress : LogApiUsage(r)
    \/ \E k \in ApiKeys : DeactivateApiKey(k)
    \/ \E k \in ApiKeys : DeleteApiKey(k)
    \/ \E k \in ApiKeys : KeyExpires(k)

SpecAuth == InitAuth /\ [][NextAuth]_vars

\* ---- the mlx backend with the scheduling of the event loop stated ----
InitMlx ==
    /\ InitWith({1})
    /\ backend = "mlx"
    /\ last_response = Unobserved
    /\ NoText
    /\ NoTraffic

\* the event loop runs every coroutine that is ready (its ready queue is
\* FIFO), a coroutine inside a synchronous stretch keeps running, and every
\* backend call on a worker thread ends
EventLoopFairness ==
    \A t \in Tasks :
        /\ SF_vars(GetModelHit(t))
        /\ SF_vars(GetModelMiss(t))
        /\ SF_vars(LoadAfterLock(t))
        /\ SF_vars(\E outcome \in Outcomes : LoadReturn(t, outcome))
        /\ WF_vars(SetLoadTime(t))
        /\ WF_vars(EvictLoopTest(t))
        /\ WF_vars(CacheInsert(t))
        /\ WF_vars(EvictLeastRecentlyUsed(t))
        /\ WF_vars(GenerateStart(t))
        /\ SF_vars(GenerateAfterLock(t))
        /\ SF_vars(\E outcome \in GenerateOutcomes : GenerateReturn(t, outcome))

SpecMlx == InitMlx /\ [][NextInference]_vars /\ EventLoopFairness

\* ---- _clean_response: texts are sequences of characters ----
UserRole == <<"U", "s", "e", "r", ":">>

AssistantRole == <<"A", "s", "s", "i", "s", "t", "a", "n", "t", ":">>

SystemRole == <<"S", "y", "s", "t", "e", "m", ":">>

\* stop_sequences, in the order of the list
stop_sequences ==
    <<<<"<", "|", "u", "s", "e", "r", "|", ">">>,
      <<"<", "|", "s", "y", "s", "t", "e", "m", "|", ">">>,
      <<"<", "|", "a", "s", "s", "i", "s", "t", "a", "n", "t", "|", ">">>,
      <<"\n">> \o UserRole, <<"\n">> \o AssistantRole, <<"\n">> \o SystemRole,
      UserRole, AssistantRole, SystemRole>>

\* what str.strip() removes
Whitespace == {" ", "\n", "\t", "\r"}

\* '.!?'
SentenceEnd == {".", "!", "?"}

Min(S) == CHOOSE x \in S : \A y \in S : x <= y

Max(S) == CHOOSE x \in S : \A y \in S : x >= y

\* text.find(sub): the 0-based index of the first occurrence, or -1
Find(text, sub) ==
    LET hits == {i \in 0..(Len(text) - Len(sub)) :
                    SubSeq(text, i + 1, i + Len(sub)) = sub}
    IN IF hits = {} THEN -1 ELSE Min(hits)

\* text.rfind(c) for a single character: the 0-based index of the last
\* occurrence, or -1
RFind(text, c) ==
    LET hits == {i \in 0..(Len(text) - 1) : text[i + 1] = c}
    IN IF hits = {} THEN -1 ELSE Max(hits)

\* text.strip()
Strip(text) ==
    LET kept == {i \in DOMAIN text : text[i] \notin Whitespace}
    IN IF kept = {} THEN <<>> ELSE SubSeq(text, Min(kept), Max(kept))

\* the for loop over stop_sequences[n..]: min_pos moves to the position of a
\* stop sequence that is found before it
RECURSIVE MinPosFrom(_, _, _)
MinPosFrom(text, n, min_pos) ==
    IF n > Len(stop_sequences) THEN min_pos
    ELSE LET pos == Find(text, stop_sequences[n])
         IN MinPosFrom(text, n + 1,
                       IF pos # -1 /\ pos < min_pos THEN pos ELSE min_pos)

\* the same loop stopping at the first stop sequence of the list that occurs
\* in the text, wherever it is
MinPosFirstListed(text) ==
    LET found == {n \in DOMAIN stop_sequences : Find(text, stop_sequences[n]) # -1}
    IN IF found = {} THEN Len(text) ELSE Find(text, stop_sequences[Min(found)])

\* min_pos after the loop
MinPos(text) == MinPosFrom(text, 1, Len(text))

\* response after `response = response[:min_pos]` and `response.strip()`
TruncatedAndStripped(text) ==
    LET min_pos == MinPos(text)
    IN Strip(IF min_pos < Len(text) THEN SubSeq(text, 1, min_pos) ELSE text)

\* max(rfind('.'), rfind('!'), rfind('?'))
LastComplete(text) == Max({RFind(text, ".") , RFind(text, "!"), RFind(text, "?")})

\* _clean_response(response)
CleanResponse(text) ==
    LET stripped == TruncatedAndStripped(text)
    IN IF stripped # <<>> /\ stripped[Len(stripped)] \notin SentenceEnd
       THEN \* last_complete > len(response) * 0.5
            IF 2 * LastComplete(stripped) > Len(stripped)
            THEN SubSeq(stripped, 1, LastComplete(stripped) + 1)
            ELSE stripped
       ELSE stripped

\* generated texts: up to MaxPieces pieces, each a character or a stop sequence
Pieces ==
    {<<"a">>, <<".">>, <<"?">>, <<" ">>, <<"\n">>, UserRole,
     <<"<", "|", "u", "s", "e", "r", "|", ">">>}

RECURSIVE TextsOf(_)
TextsOf(n) ==
    IF n = 0 THEN {<<>>}
    ELSE TextsOf(n - 1) \cup {t \o p : t \in TextsOf(n - 1), p \in Pieces}

\* "Hello there.\nUser: next question"
HelloThere ==
    <<"H", "e", "l", "l", "o", " ", "t", "h", "e", "r", "e", ".">>
        \o <<"\n", "U", "s", "e", "r", ":", " ", "n", "e", "x", "t", " ", "q", "u", "e", "s", "t", "i", "o", "n">>

Texts == TextsOf(MaxPieces) \cup {HelloThere}

\* generate_response hands the generated text to _clean_response
ApplyCleanResponse ==
    /\ cleaned_response = NotCleaned
    /\ cleaned_response' = CleanResponse(response)
    /\ UNCHANGED <<model_cache_size, api_key_usage, in_progress, api_keys, request, active_inferences, response, last_response,
                   backend, max_model_cache_size, models_cache, last_access, load_times,
                   vllm_engines, cache_lock, mlx_lock, mlx_holder, mlx_waiters, running,
                   task, executor, ntimeouts, now, mem_low, last_hit, last_evict>>

\* the backend has returned any of the texts
InitClean ==
    /\ InitWith({1})
    /\ last_response = Unobserved
    /\ response \in Texts
    /\ cleaned_response = NotCleaned
    /\ NoTraffic

NextClean == ApplyCleanResponse

SpecClean == InitClean /\ [][NextClean]_vars

\* ---- positions of a task inside get_model ----
\* the call missed and has invoked the backend load
LoadInvoked(t) == task[t].pc \in {"loading", "loaded", "evict_loop", "evict_call", "blocked"}

\* the call missed and the backend load has returned its object
LoadCompleted(t) == task[t].pc \in {"loaded", "evict_loop", "evict_call", "blocked"}

\* the call is between two iterations of its eviction loop
InEvictionLoop(t) == task[t].pc \in {"evict_loop", "evict_call"}

\* C1: concurrent get_model calls that miss on the same key invoke the backend
\* load once between them and end up with the same object
C1_SingleLoadForConcurrentMisses ==
    \A t1, t2 \in Tasks :
        (t1 # t2 /\ task[t1].key = task[t2].key) =>
            /\ ~(LoadInvoked(t1) /\ LoadInvoked(t2))
            /\ (LoadCompleted(t1) /\ LoadCompleted(t2)
                    => task[t1].model_data = task[t2].model_data)

\* C2: on every backend at most one backend load of a given key is in
\* progress at any time
C2_OneLoadInProgressPerKey ==
    \A j1, j2 \in executor :
        (j1.kind = "load" /\ j2.kind = "load" /\ j1.key = j2.key) => j1 = j2

\* C3: the number of cached models never exceeds max_model_cache_size, under
\* any interleaving of get_model, remove and clear_cache by concurrent callers
C3_CacheWithinCapacity == Len(models_cache) <= max_model_cache_size

\* C3 witness: the cache is full after an insertion while another caller's
\* load is still in flight
C3_FullCacheWhileLoading ==
    /\ Len(models_cache) = max_model_cache_size
    /\ \E t \in Tasks : task[t].pc = "loading"

\* C4: a get_model that finds the cache exactly full, with memory above the
\* floor, removes exactly one entry and then inserts its key
C4_EvictOneThenInsert ==
    \A t \in Tasks :
        (task[t].why = {"size"} /\ task[t].evicted # <<>>) =>
            /\ Len(task[t].evicted) = 1
            /\ task[t].pc = "evict_loop" \/ task[t].key \in CacheKeys

\* C5 as claimed: the eviction that follows a cache hit on K, with no other
\* access in between, removes a key other than K whenever another key is resident
C5_HitKeySurvivesWhenOthersResident ==
    (last_evict.hit # None /\ last_evict.others) => last_evict.k # last_evict.hit

\* C5 as amended: the eviction that follows a cache hit on K, with no other
\* access in between, removes a key other than K whenever another resident key
\* has a strictly smaller last-access time than K
C5_HitKeySurvivesWhenColderResident ==
    (last_evict.hit # None /\ last_evict.colder) => last_evict.k # last_evict.hit

\* C5 witness: an eviction follows a hit while a colder key is resident
C5_EvictionAfterHitWithColderKey ==
    /\ last_evict.k # None
    /\ last_evict.hit # None
    /\ last_evict.colder

\* C6: on mlx at most one backend call (load or generate) is executing at any time
C6_MlxOneBackendCallAtATime ==
    backend = "mlx" => Cardinality(executor) <= 1

\* C7: no task waits for the cache lock while holding it, so an eviction
\* never stops the get_model that caused it
C7_EvictionNeverBlocks ==
    \A t \in Tasks : ~(cache_lock = t /\ task[t].pc = "blocked")

\* C8: the eviction loop stops as soon as the cache is empty: its body is
\* never entered with nothing left to evict
C8_EvictionLoopStopsWhenEmpty ==
    \A t \in Tasks : task[t].pc = "evict_call" => models_cache # <<>>

\* C9: a get_model that evicts because memory is below the floor, with the
\* entry count below capacity, keeps evicting until memory is back at the
\* floor or no entry remains
C9_EvictUntilMemoryFreedOrEmpty ==
    \A t \in Tasks :
        (task[t].why = {"memory"} /\ task[t].evicted # <<>> /\ ~InEvictionLoop(t)) =>
            (~mem_low \/ models_cache = <<>>)

\* C10: with capacity 2 and sufficient memory, the get_model that finds two
\* other keys resident leaves exactly the more recently used of them and its
\* own key in the cache
C10_ThirdKeyReplacesLru ==
    \A t \in Tasks :
        (/\ max_model_cache_size = 2
         /\ task[t].why = {"size"}
         /\ task[t].evicted # <<>>
         /\ ~InEvictionLoop(t)) =>
            /\ Cardinality(CacheKeys) = 2
            /\ task[t].key \in CacheKeys
            /\ task[t].evicted[1] \notin CacheKeys

\* C11: a get_model whose backend load raises passes the error on (the handler
\* answers with an error status) and writes nothing: in the step that ends
\* the call the cache, the last-access map, the load-time map and the vllm
\* engine map are unchanged, and a key that is not resident has no entry in
\* the last-access and load-time maps
C11_FailedLoadLeavesStoreUnchanged ==
    [][\A t \in Tasks :
         (/\ \/ task[t].pc = "loading"
             \/ task[t].pc = "get_model" /\ task[t].key \notin CacheKeys
          /\ task'[t].pc = "idle"
          /\ ntimeouts' = ntimeouts) =>
            /\ UNCHANGED <<models_cache, last_access, load_times, vllm_engines>>
            /\ last_response'.cause \in {"load_not_found", "load_error"}
            /\ last_response'.status >= 400
            /\ task[t].key \notin CacheKeys =>
                 /\ ~DictHas(last_access', task[t].key)
                 /\ task[t].key \notin load_times']_vars

\* C11 witness: the load of a key has failed while another key is resident
C11_LoadFailedBesideResidentKey ==
    /\ last_response.cause \in {"load_not_found", "load_error"}
    /\ last_response.key \notin CacheKeys
    /\ models_cache # <<>>
    /\ task[1].pc = "idle"

\* C12: clear_cache leaves the cache, the last-access map and the load-time
\* map empty and tears down every entry that was resident: the manager keeps
\* no reference to a handle it has cleared
C12_ClearEmptiesAndTearsDown ==
    [][(last_response' # last_response /\ last_response'.op = "clear") =>
          /\ models_cache' = <<>>
          /\ last_access' = <<>>
          /\ load_times' = {}
          /\ \A i \in DOMAIN models_cache : \A j \in DOMAIN vllm_engines' :
                vllm_engines'[j] # models_cache[i]]_vars

\* C13: between operations the manager holds a vllm engine only for resident
\* keys: the key set of _vllm_engines is a subset of the cache's
C13_EnginesOnlyForResidentKeys ==
    running = None => DictKeys(vllm_engines) \subseteq CacheKeys

\* C14: removing a key answers 200 when it is resident and then the key is
\* gone from the cache, the last-access map and the load-time map; it answers
\* 404 and changes nothing when the key is not resident, which is the case of
\* a second removal right after the first; the entries of the other keys are
\* the same before and after either call
C14_RemoveTwiceIsSafe ==
    [][(last_response' # last_response /\ last_response'.op = "remove") =>
          LET key == last_response'.key IN
          /\ last_response'.status = IF key \in CacheKeys THEN 200 ELSE 404
          /\ last_response'.status = 200 =>
                /\ key \notin CacheKeys'
                /\ ~DictHas(last_access', key)
                /\ key \notin load_times'
          /\ last_response'.status = 404 =>
                UNCHANGED <<models_cache, last_access, load_times>>
          /\ (last_response'.prev # 0 /\ \A t \in Tasks : task[t].pc = "idle") =>
                last_response'.status = 404
          /\ DictDel(models_cache', key) = DictDel(models_cache, key)
          /\ DictDel(last_access', key) = DictDel(last_access, key)
          /\ load_times' \ {key} = load_times \ {key}]_vars

\* C14 witness: the second of two removals of a key in a row has answered 404
\* while another key is resident
C14_SecondRemovalAnswered404 ==
    /\ last_response.op = "remove"
    /\ last_response.status = 404
    /\ last_response.prev = 200
    /\ models_cache # <<>>
    /\ \A t \in Tasks : task[t].pc = "idle"

\* C15: on mlx the lock is released whenever a load or generate call ends
\* (returned, raised or cancelled): whoever owns the lock is inside a backend
\* call or has just been handed the lock and is about to start one, a caller
\* inside a backend call owns the lock, and a caller waits only for an owner
\* of that kind, never for a call that has ended
C15_MlxLockReleasedWhenCallEnds ==
    backend = "mlx" =>
        /\ mlx_holder # None =>
              task[mlx_holder].pc \in {"load_wait", "loading", "gen_wait", "generating"}
        /\ \A t \in Tasks :
              task[t].pc \in {"loading", "generating"} => mlx_holder = t
        /\ \A t \in Tasks :
              (task[t].pc \in {"load_wait", "gen_wait"} /\ mlx_holder # t) =>
                  /\ mlx_holder # None
                  /\ \E i \in DOMAIN mlx_waiters : mlx_waiters[i] = t

\* C15 witness: a call was cancelled while its load ran, and a later caller
\* owns the lock for its own load while the abandoned load is still running
C15_LockTakenAfterCancelledCall ==
    /\ backend = "mlx"
    /\ \E j \in executor : j.task = None
    /\ mlx_holder # None
    /\ task[mlx_holder].pc = "loading"

\* C16: the step a get_model takes on a resident key returns at once: it
\* starts no backend call, neither takes nor queues for the MLX lock, and
\* hands the chat handler the handle stored for the key
C16_HitReturnsStoredHandle ==
    [][\A t \in Tasks :
         (/\ task[t].pc = "get_model"
          /\ task[t].key \in CacheKeys
          /\ task'[t] # task[t]) =>
            /\ UNCHANGED <<executor, mlx_holder, mlx_waiters, vllm_engines>>
            /\ task'[t].pc \in {"got_model", "idle"}
            /\ task[t].op = "chat" =>
                  /\ task'[t].pc = "got_model"
                  /\ task'[t].model_data =
                        models_cache[DictGet(models_cache, task[t].key)].v]_vars

\* C16 witness: on mlx a chat request holds the handle of a resident key
\* while another caller's load of another key owns the lock
C16_HitWhileOtherKeyLoads ==
    \E t1, t2 \in Tasks :
        /\ backend = "mlx"
        /\ task[t1].pc = "got_model"
        /\ task[t1].model_data = models_cache[DictGet(models_cache, task[t1].key)].v
        /\ task[t2].pc = "loading"
        /\ task[t2].key # task[t1].key
        /\ mlx_holder = t2

\* C17: one request calls get_model once, which starts the backend load at
\* most once, and starts the backend generate at most once: each of these
\* positions is entered only from the position before it in the call, never
\* again after the backend call has ended, a task has at most one backend
\* call of its own in progress, and a backend call that fails ends the request
\* with an error response
C17_NoRetryOfBackendCalls ==
    [][\A t \in Tasks :
         /\ Cardinality({j \in executor' : j.task = t}) <= 1
         /\ (task'[t].pc = "get_model" /\ task[t].pc # "get_model") =>
               task[t].pc = "idle"
         /\ (task'[t].pc = "load_wait" /\ task[t].pc # "load_wait") =>
               task[t].pc = "get_model"
         /\ (task'[t].pc = "loading" /\ task[t].pc # "loading") =>
               task[t].pc \in {"get_model", "load_wait"}
         /\ (task'[t].pc = "got_model" /\ task[t].pc # "got_model") =>
               task[t].pc \in {"get_model", "evict_loop"}
         /\ (task'[t].pc = "gen_wait" /\ task[t].pc # "gen_wait") =>
               task[t].pc = "got_model"
         /\ (task'[t].pc = "generating" /\ task[t].pc # "generating") =>
               task[t].pc \in {"got_model", "gen_wait"}
         /\ (task[t].pc = "loading" /\ task'[t].pc \notin {"loading", "loaded"}) =>
               /\ task'[t].pc = "idle"
               /\ last_response'.status >= 400
         /\ (task[t].pc = "generating" /\ task'[t].pc # "generating") =>
               /\ task'[t].pc = "idle"
               /\ last_response'.cause # "none" => last_response'.status >= 400]_vars

\* C17 witness: a backend call of the request has failed and the request has
\* been answered with the error, with no backend call of its own left
C17_BackendFailureAnswered ==
    /\ last_response.cause \in {"load_not_found", "load_error", "generate_error"}
    /\ last_response.status >= 400
    /\ task[1].pc = "idle"
    /\ \A j \in executor : j.task # 1

\* C18: _clean_response cuts at the earliest position where a stop sequence
\* begins: its output contains no stop sequence, is a part of the text before
\* that position (nothing that followed it is left), and is "Hello there."
\* for "Hello there.\nUser: next question"
C18_CutAtEarliestStopSequence ==
    cleaned_response # NotCleaned =>
        LET BeginsAt(text, i) ==
                \E n \in DOMAIN stop_sequences :
                    /\ i + Len(stop_sequences[n]) <= Len(text)
                    /\ SubSeq(text, i + 1, i + Len(stop_sequences[n])) = stop_sequences[n]
            starts == {i \in 0..Len(response) : BeginsAt(response, i)}
            earliest == IF starts = {} THEN Len(response) ELSE Min(starts)
        IN /\ \A i \in 0..Len(cleaned_response) : ~BeginsAt(cleaned_response, i)
           /\ \E a \in 0..earliest :
                 /\ a + Len(cleaned_response) <= earliest
                 /\ SubSeq(response, a + 1, a + Len(cleaned_response)) = cleaned_response
           /\ response = HelloThere =>
                 cleaned_response = <<"H", "e", "l", "l", "o", " ", "t", "h", "e", "r", "e", ".">>

\* C18 witness: a text holding two different stop sequences, the later-listed
\* one first, has been cut to a text that is not empty
C18_CutBeforeFirstOfTwoStopSequences ==
    /\ cleaned_response # NotCleaned
    /\ cleaned_response # <<>>
    /\ Find(response, UserRole) # -1
    /\ Find(response, stop_sequences[1]) # -1
    /\ Find(response, UserRole) < Find(response, stop_sequences[1])

\* C19: when the text left after the cut and the strip does not end in '.',
\* '!' or '?', the output is that text cut just after its last such character
\* if that character is at or after the midpoint of the text, and that text
\* unchanged otherwise
C19_BackTruncateFromMidpoint ==
    cleaned_response # NotCleaned =>
        LET left == TruncatedAndStripped(response)
            ends == {i \in 0..(Len(left) - 1) : left[i + 1] \in SentenceEnd}
        IN (left # <<>> /\ left[Len(left)] \notin SentenceEnd) =>
              IF ends # {} /\ 2 * Max(ends) >= Len(left)
              THEN cleaned_response = SubSeq(left, 1, Max(ends) + 1)
              ELSE cleaned_response = left

\* C20: a request whose model load failed because the model was not found
\* is answered with a 4xx status, by the chat handler and by the preload
\* handler
C20_LoadNotFoundIsClientError ==
    last_response.cause = "load_not_found" =>
        (last_response.status >= 400 /\ last_response.status <= 499)


\* C22: for every key, the recorded last-access time never decreases from one
\* step to the next while the key stays resident, whether the step is a cache
\* hit or a re-insertion of the key by a concurrent loader
C22_LastAccessNeverDecreasesWhileResident ==
    [][\A key \in Keys :
          (/\ key \in CacheKeys
           /\ key \in DictKeys(models_cache')
           /\ DictHas(last_access, key)
           /\ DictHas(last_access', key))
              => last_access'[DictGet(last_access', key)].v
                     >= last_access[DictGet(last_access, key)].v]_vars

\* C22 witness: two callers loaded the same key; the second one has just put
\* its own object over the resident entry, at a later time than time 0
C22_ReinsertedByConcurrentLoader ==
    \E t1, t2 \in Tasks, key \in Keys :
        /\ t1 # t2
        /\ task[t1].key = key /\ task[t2].key = key
        /\ task[t1].pc \in {"gen_wait", "generating"}
        /\ task[t2].pc = "got_model"
        /\ task[t1].model_data # task[t2].model_data
        /\ DictHas(models_cache, key)
        /\ models_cache[DictGet(models_cache, key)].v = task[t2].model_data
        /\ DictHas(last_access, key)
        /\ last_access[DictGet(last_access, key)].v > 0

\* C23: on the vllm and cpu backends the resource lock is never created, owned
\* or queued on; the lock object exists only on the mlx backend
C23_LockOnlyOnMlx ==
    backend # "mlx" =>
        /\ mlx_lock = "None"
        /\ mlx_holder = None
        /\ mlx_waiters = <<>>

\* C23 witness: off mlx, backend calls of two different callers are in
\* progress at the same time, one of them a load and one a generate
C23_TwoBackendCallsInProgressOffMlx ==
    /\ backend # "mlx"
    /\ \E j1, j2 \in executor :
         /\ j1.task # None /\ j2.task # None
         /\ j1.task # j2.task
         /\ j1.kind = "load" /\ j2.kind = "generate"
         /\ task[j1.task].pc = "loading"
         /\ task[j2.task].pc = "generating"

\* C25: between operations (no handler is in the middle of a synchronous
\* stretch) the keys of the load-time map are exactly the resident keys
C25_LoadTimesMatchResidentKeys ==
    running = None => load_times = CacheKeys

\* C25 witness: between operations, after two callers loaded the same key
\* and the second one re-inserted it, the key is resident and has a load time
C25_SameKeyLoadedTwice ==
    /\ running = None
    /\ \E t1, t2 \in Tasks, key \in Keys :
         /\ t1 # t2
         /\ task[t1].key = key /\ task[t2].key = key
         /\ task[t1].pc = "generating" /\ task[t2].pc = "generating"
         /\ task[t1].model_data # task[t2].model_data
         /\ key \in CacheKeys
         /\ key \in load_times

\* C26: while a generate_response call that obtained the handle of its key
\* waits for the resource lock or runs the generation, the key is resident
C26_GenerationKeyStaysResident ==
    \A t \in Tasks :
        task[t].pc \in {"gen_wait", "generating"} => task[t].key \in CacheKeys

\* C27: a get_model call that has finished loading a key that is already
\* resident removes no entry from the cache when memory is not short: its
\* eviction step leaves the set of resident keys as it was
C27_LoadOfResidentKeyEvictsNothing ==
    [][\A t \in Tasks :
          (/\ task[t].pc = "evict_call"
           /\ task[t].why = {"size"}
           /\ task[t].key \in CacheKeys
           /\ task'[t] # task[t])
              => DictKeys(models_cache') = CacheKeys]_vars

\* C28: the step in which a get_model call is cancelled by its caller's
\* deadline while it waits for the resource lock or for the backend load, and
\* the step in which the abandoned backend load later ends, both leave the
\* cache, the last-access map and the load-time map unchanged
C28_CancelledLoadLeavesMapsUnchanged ==
    [][(\/ \E t \in Tasks :
             /\ task[t].pc \in {"load_wait", "loading"}
             /\ task'[t].pc = "idle"
             /\ ntimeouts' # ntimeouts
        \/ \E j \in executor :
             /\ j.task = None
             /\ j.kind = "load"
             /\ j \notin executor')
          => /\ models_cache' = models_cache
             /\ last_access' = last_access
             /\ load_times' = load_times]_vars

\* C28 witness: the caller of a load was cancelled and is idle again, the
\* load is still running on its worker thread, and its key is not resident
C28_LoadRunsOnAfterCancel ==
    \E j \in executor :
        /\ j.task = None
        /\ j.kind = "load"
        /\ j.key \notin CacheKeys
        /\ j.key \notin load_times
        /\ \A t \in Tasks : task[t].pc = "idle"

\* C29: the concurrent-inference counter equals the number of chat
\* completions that have recorded inference start and are not yet answered
C29_CounterEqualsChatsInProgress ==
    active_inferences =
        Cardinality({t \in Tasks : task[t].op = "chat" /\ task[t].pc # "idle"})

\* C24: a request to a path starting with /v1/chat/completions, /v1/models or
\* /auth/me reaches its handler only if the key it carries verified as active
\* and unexpired; otherwise it is answered 401 and the handler does not run
C24_HandlerOnlyBehindVerifiedKey ==
    (\E p \in ProtectedPathsOfOpenApi : StartsWith(request.path, p)) =>
        /\ request.handler_ran => request.verified
        /\ ~request.verified => request.status = 401

\* C21: a chat completion or preload that is answered after the deadline of
\* its wait_for has expired is answered with status 504
C21_ExpiredDeadlineAnswered504 ==
    last_response.late => last_response.status = 504

\* C30: on the mlx backend, with every backend call ending, every caller that
\* waits for the resource lock stops waiting (it gets the lock or is
\* cancelled), and no caller is queued on the lock while it owns it
C30_LockWaitersGetTheLock ==
    /\ \A t \in Tasks :
         (task[t].pc \in {"load_wait", "gen_wait"})
             ~> (task[t].pc \notin {"load_wait", "gen_wait"})
    /\ [](\A i \in DOMAIN mlx_waiters : mlx_waiters[i] # mlx_holder)

\* C31: in every state the cache and the last-access map have the same key
\* set, and the eviction step taken with a non-empty cache finds a least
\* recently used key that is resident and removes exactly that key
C31_CacheAndLastAccessSameKeys ==
    /\ [](DictKeys(last_access) = CacheKeys)
    /\ [][\A t \in Tasks :
            (/\ task[t].pc = "evict_call"
             /\ models_cache # <<>>
             /\ task'[t] # task[t])
                => /\ last_access # <<>>
                   /\ LruKey(last_access) \in CacheKeys
                   /\ DictKeys(models_cache') = CacheKeys \ {LruKey(last_access)}
                   /\ DictKeys(last_access') = DictKeys(models_cache')]_vars

\* C31 witness: an eviction has removed the least recently used key while
\* another key stays resident
C31_EvictedOneOfTwoResidentKeys ==
    \E t \in Tasks :
        /\ task[t].evicted # <<>>
        /\ models_cache # <<>>
        /\ task[t].evicted[1] \notin CacheKeys
        /\ DictKeys(last_access) = CacheKeys

\* C32: between operations, when the resident keys have pairwise different
\* last-access times, the cache lists them in the order of those times, so
\* the first listed key is the key the next eviction removes
C32_CacheOrderAgreesWithLastAccess ==
    LET AccessTime(key) == last_access[DictGet(last_access, key)].v
    IN (/\ running = None
        /\ DictKeys(last_access) = CacheKeys
        /\ \A i, j \in DOMAIN last_access :
              i # j => last_access[i].v # last_access[j].v) =>
           /\ \A i, j \in DOMAIN models_cache :
                 i < j => AccessTime(models_cache[i].k) < AccessTime(models_cache[j].k)
           /\ models_cache # <<>> => models_cache[1].k = LruKey(last_access)

\* C36: the key an eviction removes has the smallest last-access time, and
\* every other key with that same time was inserted into the last-access map
\* after it; the removed key is thereby fixed by the map's contents
C36_TieEvictsFirstInserted ==
    [][\A t \in Tasks :
          (/\ task[t].pc = "evict_call"
           /\ models_cache' # models_cache) =>
              \E i \in DOMAIN last_access :
                 /\ DictKeys(models_cache') = CacheKeys \ {last_access[i].k}
                 /\ last_access[i].k \in CacheKeys
                 /\ \A j \in DOMAIN last_access :
                       /\ last_access[j].v >= last_access[i].v
                       /\ (j # i /\ last_access[j].v = last_access[i].v) => j > i]_vars

\* C36 witness: an eviction has removed the key that was accessed last, by a
\* hit, while another key was resident: the two shared the smallest time and
\* the removed key was the first in the last-access map
C36_TieRemovedTheKeyJustHit ==
    /\ last_evict.k # None
    /\ last_evict.hit = last_evict.k
    /\ last_evict.others
    /\ ~last_evict.colder

\* C33: every api_key_usage row refers to an api key that has a row in
\* api_keys, whatever the interleaving of a request's verification, handler
\* and usage logging with delete_api_key
C33_UsageRowsReferToExistingKeys ==
    api_key_usage \subseteq DOMAIN api_keys

\* C34: once a key is deactivated no step changes its usage count (and with
\* it its last-used time), no step grants it a verification, and it stays
\* deactivated; the usage count of any key changes only by one at a time
C34_DeactivatedKeyNeverVerifies ==
    [][\A k \in ApiKeys :
          /\ (k \in DOMAIN api_keys /\ ~api_keys[k].is_active) =>
                /\ k \in DOMAIN api_keys' =>
                      /\ ~api_keys'[k].is_active
                      /\ api_keys'[k].usage_count = api_keys[k].usage_count
                /\ request' # request =>
                      ~(/\ request'.verified
                        /\ PresentedKey(request'.authorization, request'.x_api_key) = k)
          /\ (k \in DOMAIN api_keys /\ k \in DOMAIN api_keys') =>
                api_keys'[k].usage_count \in
                    {api_keys[k].usage_count, api_keys[k].usage_count + 1}]_vars

\* C35: the step in which a get_model call completes a load (its key is put
\* into the cache and the call returns) and the step in which an eviction
\* removes an entry leave the model_cache_size gauge equal to the number of
\* models in the cache
C35_GaugeFollowsLoadsAndEvictions ==
    [][\A t \in Tasks :
          (\/ /\ task[t].pc = "evict_loop"
              /\ task'[t].pc \in {"got_model", "idle"}
           \/ /\ task[t].pc = "evict_call"
              /\ models_cache' # models_cache)
             => model_cache_size' = Len(models_cache')]_vars
====
